---- MODULE Spec2Model ----
(***************************************************************************)
(* Forecast Club: predictions, forecasts, lock-in and Brier scoring.       *)
(*                                                                         *)
(* Time is counted in microseconds, the resolution of Python's datetime    *)
(* and timedelta.  Probabilities are counted in hundredths (the form       *)
(* handlers store probability / 100), Brier scores in ten-thousandths.     *)
(* Free-text columns (title, description, reasoning, email) carry no       *)
(* behaviour and are left out of the rows.  The deletion handlers          *)
(* (delete_prediction, leave_group, remove_group_member) are not modelled. *)
(*                                                                         *)
(* The handlers await the database between their checks and their write.   *)
(* A forecast or join handler step with held = TRUE stops after the checks *)
(* and leaves the decided write in `pending` until `flush`; with held =    *)
(* FALSE checks and write are one step.  One such request at a time is     *)
(* suspended; any number of other requests run to completion while it is.  *)
(*                                                                         *)
(* The clock starts when the first prediction is created: no row modelled  *)
(* here stores an earlier time.                                            *)
(***************************************************************************)
EXTENDS Integers, Sequences, FiniteSets, TLC

\* ---------------------------------------------------------------- bounds
MaxTime == 2
MaxPredictions == 1
MaxForecasts == 2
MaxMemberships == 3
MaxReadPredictions == 2
MaxLen == 3

\* ------------------------------------------------------- program constants
\* LOCK_IN_PERCENTAGE = 0.75 = LockInNum / LockInDen
num_buckets == 10
LockInNum == 3
LockInDen == 4
\* probability = percent / 100
ProbDen == 100

\* ------------------------------------------------------------- input sets
Users == {1, 2}
Groups == {1}
ResolutionDates == {0, 1, 3}
Probabilities == {0, 50}
ScoreProbabilities == 0 .. ProbDen
ListProbabilities == {0, 10, 50, 90, 100}
CalibrationProbabilities == {5, 10, 15, 30, 85, 100}

PredictionStatus == {"open", "resolved_yes", "resolved_no", "ambiguous"}
GroupRole == {"member", "admin"}
Outcomes == PredictionStatus \ {"open"}

\* Optional values (Python's None / a value)
None == [is_none |-> TRUE, value |-> 0]
Some(v) == [is_none |-> FALSE, value |-> v]

VARIABLES
    now,          \* the clock read by datetime.utcnow() and func.now()
    memberships,  \* table group_memberships, rows in insertion order
    predictions,  \* table predictions, row i has id i
    forecasts,    \* table forecasts, row i has id i
    pending,      \* the write a suspended request has decided on and not yet flushed
    scored,       \* scoring harness: a (probability, outcome) pair and its Brier score
    inputs,       \* scoring harness: a list of (probability, outcome) pairs
    averaged,     \* scoring harness: the average Brier score of `inputs`
    calibration,  \* scoring harness: a forecast list and its calibration buckets
    leaderboard_shown   \* the last leaderboard response

vars == <<now, memberships, predictions, forecasts, pending, scored, inputs, averaged,
          calibration, leaderboard_shown>>
app_vars == <<now, memberships, predictions, forecasts, pending>>
harness_vars == <<scored, inputs, averaged, calibration, leaderboard_shown>>

\* ------------------------------------------------------------ arithmetic
Abs(x) == IF x < 0 THEN -x ELSE x

\* round(n / d) to the nearest integer, ties to the even one (d > 0)
RoundHalfEven(n, d) ==
    LET q == n \div d
        r == n % d
    IN  IF 2 * r < d THEN q
        ELSE IF 2 * r > d THEN q + 1
        ELSE IF q % 2 = 0 THEN q ELSE q + 1

RECURSIVE Ascending(_)
Ascending(S) ==
    IF S = {} THEN <<>>
    ELSE LET m == CHOOSE x \in S : \A y \in S : x <= y
         IN  <<m>> \o Ascending(S \ {m})

RECURSIVE SumSeq(_)
SumSeq(s) == IF s = <<>> THEN 0 ELSE Head(s) + SumSeq(Tail(s))

\* ------------------------------------------------------ float arithmetic
\* Python's float is the IEEE 754 binary64 format: a 53-bit significand and
\* round-to-nearest, ties-to-even.  A significand is kept as <<hi, lo>>,
\* hi * LimbBase + lo with 0 <= lo < LimbBase, so that no intermediate value
\* leaves the 32-bit integers; a float is m * 2^e with m a normalised
\* significand (2^52 <= m < 2^53), or zero.
LimbBits == 27
LimbBase == 134217728
SignificandBits == 53

WDouble(w, bit) ==
    LET lo == 2 * w[2] + bit
    IN  <<2 * w[1] + lo \div LimbBase, lo % LimbBase>>

WHalve(w) == <<w[1] \div 2, ((w[1] % 2) * LimbBase + w[2]) \div 2>>

WLess(a, b) == a[1] < b[1] \/ (a[1] = b[1] /\ a[2] < b[2])

WSub(a, b) ==
    IF a[2] >= b[2] THEN <<a[1] - b[1], a[2] - b[2]>>
    ELSE <<a[1] - b[1] - 1, a[2] + LimbBase - b[2]>>

WInc(w) == IF w[2] + 1 = LimbBase THEN <<w[1] + 1, 0>> ELSE <<w[1], w[2] + 1>>

\* bit i of w, bit 0 the lowest
WBit(w, i) ==
    IF i < LimbBits THEN (w[2] \div 2^i) % 2 ELSE (w[1] \div 2^(i - LimbBits)) % 2

FloatZero == [m |-> <<0, 0>>, e |-> 0]

\* float(k) for an int 0 <= k < 2^(SignificandBits - LimbBits)
FromInt(k) ==
    IF k = 0 THEN FloatZero
    ELSE LET top == SignificandBits - 1 - LimbBits
             s == CHOOSE n \in 0 .. top : 2^top <= k * 2^n /\ k * 2^n < 2^(top + 1)
         IN  [m |-> <<k * 2^s, 0>>, e |-> -LimbBits - s]

\* the element of a one-element set.  A value computed once and used many
\* times is bound as x \in {value}.
Only(S) == CHOOSE x \in S : TRUE

\* one step of the binary long division of A * 2^(SignificandBits + 1) by
\* B: bit d.i of the dividend is brought down
DivStep(A, B, d) ==
    LET bit == IF d.i > SignificandBits THEN WBit(A, d.i - SignificandBits - 1) ELSE 0
        R2 == WDouble(d.r, bit)
    IN  IF WLess(R2, B) THEN [q |-> WDouble(d.q, 0), r |-> R2, i |-> d.i - 1]
        ELSE [q |-> WDouble(d.q, 1), r |-> WSub(R2, B), i |-> d.i - 1]

DivSteps(A, B, D) == {DivStep(A, B, d) : d \in D}

\* the quotient q and remainder r of that division, nine bits at a time
RECURSIVE LongDiv(_, _, _)
LongDiv(A, B, d) ==
    IF d.i < 0 THEN d
    ELSE Only({LongDiv(A, B, n) : n \in
            DivSteps(A, B, DivSteps(A, B, DivSteps(A, B,
            DivSteps(A, B, DivSteps(A, B, DivSteps(A, B,
            DivSteps(A, B, DivSteps(A, B, DivSteps(A, B, {d})))))))))})

\* the quotient d.q of SignificandBits + 1 or + 2 bits rounded to
\* SignificandBits bits, nearest even, with exponent e0 for the short one
RoundQuotient(d, e0) ==
    LET wide == d.q[1] >= 2^(SignificandBits + 1 - LimbBits)
        q == IF wide THEN WHalve(d.q) ELSE d.q
        sticky == d.r # <<0, 0>> \/ (wide /\ d.q[2] % 2 = 1)
        e == e0 + (IF wide THEN 2 ELSE 1)
        m0 == WHalve(q)
        up == q[2] % 2 = 1 /\ (sticky \/ m0[2] % 2 = 1)
        m == IF up THEN WInc(m0) ELSE m0
    IN  IF m[1] >= 2^(SignificandBits - LimbBits)
        THEN [m |-> WHalve(m), e |-> e + 1]
        ELSE [m |-> m, e |-> e]

\* a / b, correctly rounded (b not zero)
FloatDiv(a, b) ==
    IF a.m = <<0, 0>> THEN FloatZero
    ELSE Only({RoundQuotient(d, x.e - y.e - SignificandBits - 1) :
                d \in {LongDiv(x.m, y.m, [q |-> <<0, 0>>, r |-> <<0, 0>>,
                                          i |-> 2 * SignificandBits + 1]) :
                       x \in {a}, y \in {b}},
                x \in {a}, y \in {b}})

\* int(x) for a float 0 <= x < 2^(SignificandBits - LimbBits)
FloatInt(x) ==
    LET n == -x.e
    IN  IF n > SignificandBits THEN 0
        ELSE IF n >= LimbBits THEN x.m[1] \div 2^(n - LimbBits)
        ELSE x.m[1] * 2^(LimbBits - n) + x.m[2] \div 2^n

\* ------------------------------------------------------------- lock-in
\* lock_in_at with the 75% point cut down to a whole microsecond
lock_in_at_truncated(p) ==
    LET total_duration == p.resolution_date - p.created_at
    IN  p.created_at + (total_duration * LockInNum) \div LockInDen

lock_in_at(p) ==
    LET total_duration == p.resolution_date - p.created_at
    IN  p.created_at + RoundHalfEven(total_duration * LockInNum, LockInDen)

\* is_locked that only an open prediction can have
is_locked_while_open(p) == p.status = "open" /\ now >= lock_in_at(p)

is_locked(p) == now >= lock_in_at(p)

\* ------------------------------------------------------------- scoring
\* the absolute error in place of the squared error
calculate_absolute_error(probability, outcome) ==
    IF outcome = "ambiguous" THEN None
    ELSE Some(ProbDen * Abs(probability - (IF outcome = "resolved_yes" THEN ProbDen ELSE 0)))

\* ambiguous scored as if the event had not happened
calculate_brier_score_ambiguous_as_no(probability, outcome) ==
    LET actual == IF outcome = "resolved_yes" THEN ProbDen ELSE 0
    IN  Some((probability - actual) * (probability - actual))

calculate_brier_score(probability, outcome) ==
    IF outcome = "ambiguous" THEN None
    ELSE LET actual == IF outcome = "resolved_yes" THEN ProbDen ELSE 0
         IN  Some((probability - actual) * (probability - actual))

\* scores of the scorable entries of a list of <<probability, outcome>> pairs
RECURSIVE brier_scores(_)
brier_scores(fs) ==
    IF fs = <<>> THEN <<>>
    ELSE LET score == calculate_brier_score(Head(fs)[1], Head(fs)[2])
         IN  IF score.is_none THEN brier_scores(Tail(fs))
             ELSE <<score.value>> \o brier_scores(Tail(fs))

RECURSIVE GCD(_, _)
GCD(a, b) == IF b = 0 THEN a ELSE GCD(b, a % b)

\* an average: undefined, or the fraction total / count in lowest terms
NoAverage == [is_none |-> TRUE, num |-> 0, den |-> 1]
Average(total, count) ==
    [is_none |-> FALSE, num |-> total \div GCD(total, count),
     den |-> count \div GCD(total, count)]

\* an average over the whole list, the unscored entries adding nothing
calculate_average_brier_score_over_all(fs) ==
    LET scores == brier_scores(fs)
    IN  IF scores = <<>> THEN NoAverage
        ELSE Average(SumSeq(scores), Len(fs))

\* an average that is 0 when there is nothing to average
calculate_average_brier_score_or_zero(fs) ==
    LET scores == brier_scores(fs)
    IN  IF scores = <<>> THEN Average(0, 1)
        ELSE Average(SumSeq(scores), Len(scores))

calculate_average_brier_score(fs) ==
    LET scores == brier_scores(fs)
    IN  IF scores = <<>> THEN NoAverage
        ELSE Average(SumSeq(scores), Len(scores))

\* ---------------------------------------------------------- calibration
\* the float a probability of k hundredths is stored as (probability / 100
\* in the form handlers, the parsed decimal in the API)
AsFloat(k) == FloatDiv(FromInt(k), FromInt(ProbDen))

bucket_size == FloatDiv(FromInt(1), FromInt(num_buckets))

\* min(int(probability / bucket_size), num_buckets - 1), for every
\* probability in hundredths
bucket_indices ==
    [k \in 0 .. ProbDen |->
        Only({IF idx < num_buckets - 1 THEN idx ELSE num_buckets - 1 :
              idx \in {FloatInt(FloatDiv(AsFloat(k), bucket_size))}})]

bucket_idx(probability) == bucket_indices[probability]

\* the items of bucket i with the ambiguous entries taken in as well
bucket_items_with_ambiguous(fs, i) ==
    SelectSeq(fs, LAMBDA e : bucket_idx(e[1]) = i)

\* buckets[i]: the entries appended to bucket i, in input order
bucket_items(fs, i) ==
    SelectSeq(fs, LAMBDA e : e[2] # "ambiguous" /\ bucket_idx(e[1]) = i)

\* a bucket whose frequency is taken over the whole input
CalibrationBucket_frequency_over_all(fs, i) ==
    LET items == bucket_items(fs, i)
        yes == SelectSeq(items, LAMBDA e : e[2] = "resolved_yes")
    IN  [bucket_start |-> i * (ProbDen \div num_buckets),
         bucket_end |-> (i + 1) * (ProbDen \div num_buckets),
         predicted_probability |->
             Average(SumSeq([k \in DOMAIN items |-> items[k][1]]), Len(items)),
         actual_frequency |-> Average(Len(yes), Len(fs)),
         count |-> Len(items)]

\* the CalibrationBucket of the non-empty bucket i; bounds and mean in
\* hundredths, as exact fractions
CalibrationBucket(fs, i) ==
    LET items == bucket_items(fs, i)
        yes == SelectSeq(items, LAMBDA e : e[2] = "resolved_yes")
    IN  [bucket_start |-> i * (ProbDen \div num_buckets),
         bucket_end |-> (i + 1) * (ProbDen \div num_buckets),
         predicted_probability |->
             Average(SumSeq([k \in DOMAIN items |-> items[k][1]]), Len(items)),
         actual_frequency |-> Average(Len(yes), Len(items)),
         count |-> Len(items)]

\* an empty bucket reported as an entry
EmptyBucket(i) ==
    [bucket_start |-> i * (ProbDen \div num_buckets),
     bucket_end |-> (i + 1) * (ProbDen \div num_buckets),
     predicted_probability |-> NoAverage, actual_frequency |-> NoAverage,
     count |-> 0]

\* the result list with the empty buckets kept
RECURSIVE calibration_rows_with_empty(_, _)
calibration_rows_with_empty(fs, i) ==
    IF i >= num_buckets THEN <<>>
    ELSE (IF bucket_items(fs, i) = <<>> THEN <<EmptyBucket(i)>>
          ELSE <<CalibrationBucket(fs, i)>>)
         \o calibration_rows_with_empty(fs, i + 1)

\* for i in range(num_buckets): the entries of the buckets from i on
RECURSIVE calibration_rows(_, _)
calibration_rows(fs, i) ==
    IF i >= num_buckets THEN <<>>
    ELSE (IF bucket_items(fs, i) = <<>> THEN <<>>
          ELSE <<CalibrationBucket(fs, i)>>)
         \o calibration_rows(fs, i + 1)

calculate_calibration_buckets(fs) == calibration_rows(fs, 0)

\* --------------------------------------------------------- table lookups
PredictionIds == DOMAIN predictions
ForecastIds == DOMAIN forecasts

Min(S) == CHOOSE x \in S : \A y \in S : x <= y

\* rows of group_memberships for (group, user)
membership_rows(g, u) ==
    {i \in DOMAIN memberships :
        memberships[i].group_id = g /\ memberships[i].user_id = u}

\* scalar_one_or_none() over those rows: None, or the row
get_membership(g, u) ==
    IF membership_rows(g, u) = {} THEN None
    ELSE Some(memberships[Min(membership_rows(g, u))])

\* scalar_one_or_none() raises MultipleResultsFound over two rows or more,
\* and the request ends there
one_or_none(rows) == Cardinality(rows) <= 1

\* the membership lookup returns a row
is_member(g, u) == one_or_none(membership_rows(g, u)) /\ ~get_membership(g, u).is_none

\* forecast ids of a user on a prediction
forecast_rows(pid, u) ==
    {i \in ForecastIds :
        forecasts[i].prediction_id = pid /\ forecasts[i].user_id = u}

\* ------------------------------------------------------------ unit of work
Idle == [op |-> "idle", user_id |-> 0, group_id |-> 0, prediction_id |-> 0,
         forecast_id |-> 0, probability |-> 0, outcome |-> "open"]

InsertMembership(u, g) ==
    [Idle EXCEPT !.op = "insert_membership", !.user_id = u, !.group_id = g]

InsertForecast(u, pid, probability) ==
    [Idle EXCEPT !.op = "insert_forecast", !.user_id = u,
                 !.prediction_id = pid, !.probability = probability]

UpdateForecast(u, fid, probability) ==
    [Idle EXCEPT !.op = "update_forecast", !.user_id = u, !.forecast_id = fid,
                 !.probability = probability]

ResolvePrediction(pid, outcome) ==
    [Idle EXCEPT !.op = "resolve", !.prediction_id = pid, !.outcome = outcome]

NewPrediction(u, g, resolution_date) ==
    [group_id |-> g, creator_id |-> u, resolution_date |-> resolution_date,
     status |-> "open", resolved_at |-> None, created_at |-> now]

\* created_at and updated_at are stamped by the database
\* (server_default=func.now())
NewForecast(u, pid, probability) ==
    [prediction_id |-> pid, user_id |-> u, probability |-> probability,
     created_at |-> now, updated_at |-> now]

\* an edit that restamps created_at as well
forecast_written_restamped(f, probability) ==
    IF probability = f.probability THEN f
    ELSE [f EXCEPT !.probability = probability, !.created_at = now,
                   !.updated_at = now]

\* UPDATE forecasts SET probability, with updated_at stamped by onupdate; the
\* unit of work emits no UPDATE for a row that is not modified
forecast_written(f, probability) ==
    IF probability = f.probability THEN f
    ELSE [f EXCEPT !.probability = probability, !.updated_at = now]

\* UPDATE predictions SET status, resolved_at
prediction_resolved(p, outcome) ==
    [p EXCEPT !.status = outcome, !.resolved_at = Some(now)]

\* the tables after the write w has reached the database
Write(w) ==
    /\ forecasts' =
         IF w.op = "insert_forecast"
         THEN Append(forecasts, NewForecast(w.user_id, w.prediction_id, w.probability))
         ELSE IF w.op = "update_forecast"
         THEN [forecasts EXCEPT ![w.forecast_id] =
                    forecast_written(forecasts[w.forecast_id], w.probability)]
         ELSE forecasts
    /\ predictions' =
         IF w.op = "resolve"
         THEN [predictions EXCEPT ![w.prediction_id] =
                    prediction_resolved(predictions[w.prediction_id], w.outcome)]
         ELSE predictions
    /\ memberships' =
         IF w.op = "insert_membership"
         THEN Append(memberships, [user_id |-> w.user_id, group_id |-> w.group_id,
                                   role |-> "member"])
         ELSE memberships

\* a handler that passed its checks: it is suspended before the write (held)
\* or writes at once
Decide(w, held) ==
    IF held
    THEN /\ pending = Idle
         /\ pending' = w
         /\ UNCHANGED <<memberships, predictions, forecasts>>
    ELSE /\ Write(w)
         /\ UNCHANGED pending

\* room in the forecasts table, counting the suspended insert
ForecastRoom ==
    Len(forecasts) + (IF pending.op = "insert_forecast" THEN 1 ELSE 0) < MaxForecasts

\* room in the group_memberships table, counting the suspended insert
MembershipRoom ==
    Len(memberships) + (IF pending.op = "insert_membership" THEN 1 ELSE 0)
        < MaxMemberships

\* the suspended request resumes: db.flush() / db.commit()
flush ==
    /\ pending # Idle
    /\ Write(pending)
    /\ pending' = Idle
    /\ UNCHANGED <<now, harness_vars>>

\* ------------------------------------------------------------------ clock
Tick ==
    /\ now < MaxTime
    /\ predictions # <<>>
    /\ now' = now + 1
    /\ UNCHANGED <<memberships, predictions, forecasts, pending, harness_vars>>

\* ----------------------------------------------------------------- groups
join_group(held, u, g) ==
    /\ MembershipRoom
    /\ one_or_none(membership_rows(g, u))
    /\ get_membership(g, u).is_none
    /\ Decide(InsertMembership(u, g), held)
    /\ UNCHANGED <<now, harness_vars>>

\* ------------------------------------------------------------ predictions
create_prediction(u, g, resolution_date) ==
    /\ Len(predictions) < MaxPredictions
    /\ is_member(g, u)
    /\ predictions' = Append(predictions, NewPrediction(u, g, resolution_date))
    /\ UNCHANGED <<now, memberships, forecasts, pending, harness_vars>>

create_prediction_submit(u, g, resolution_date, probability) ==
    /\ Len(predictions) < MaxPredictions
    /\ ForecastRoom
    /\ predictions' = Append(predictions, NewPrediction(u, g, resolution_date))
    /\ forecasts' = Append(forecasts,
                           NewForecast(u, Len(predictions) + 1, probability))
    /\ UNCHANGED <<now, memberships, pending, harness_vars>>

\* -------------------------------------------------------------- forecasts
create_forecast(held, u, pid, probability) ==
    /\ ForecastRoom
    /\ pid \in PredictionIds
    /\ is_member(predictions[pid].group_id, u)
    /\ predictions[pid].status = "open"
    /\ ~is_locked(predictions[pid])
    /\ forecast_rows(pid, u) = {}
    /\ Decide(InsertForecast(u, pid, probability), held)
    /\ UNCHANGED <<now, harness_vars>>

\* update_forecast without the check of the forecast's owner
update_forecast_any_user(held, u, fid, probability) ==
    /\ fid \in ForecastIds
    /\ predictions[forecasts[fid].prediction_id].status = "open"
    /\ ~is_locked(predictions[forecasts[fid].prediction_id])
    /\ Decide(UpdateForecast(u, fid, probability), held)
    /\ UNCHANGED <<now, harness_vars>>

\* the HTTP status of PATCH /api/forecasts/{forecast_id}
update_forecast_response(u, fid) ==
    IF fid \notin ForecastIds THEN 404
    ELSE IF forecasts[fid].user_id # u THEN 403
    ELSE IF predictions[forecasts[fid].prediction_id].status # "open" THEN 400
    ELSE IF is_locked(predictions[forecasts[fid].prediction_id]) THEN 400
    ELSE 200

\* update_forecast without the check of the prediction's status
update_forecast_unchecked(held, u, fid, probability) ==
    /\ fid \in ForecastIds
    /\ forecasts[fid].user_id = u
    /\ ~is_locked(predictions[forecasts[fid].prediction_id])
    /\ Decide(UpdateForecast(u, fid, probability), held)
    /\ UNCHANGED <<now, harness_vars>>

update_forecast(held, u, fid, probability) ==
    /\ fid \in ForecastIds
    /\ forecasts[fid].user_id = u
    /\ predictions[forecasts[fid].prediction_id].status = "open"
    /\ ~is_locked(predictions[forecasts[fid].prediction_id])
    /\ Decide(UpdateForecast(u, fid, probability), held)
    /\ UNCHANGED <<now, harness_vars>>

submit_forecast(held, u, pid, probability) ==
    /\ pid \in PredictionIds
    /\ predictions[pid].status = "open"
    /\ ~is_locked(predictions[pid])
    /\ IF forecast_rows(pid, u) # {}
       THEN Decide(UpdateForecast(u, Min(forecast_rows(pid, u)), probability), held)
       ELSE /\ ForecastRoom
            /\ Decide(InsertForecast(u, pid, probability), held)
    /\ UNCHANGED <<now, harness_vars>>

\* ------------------------------------------------------------- resolution
\* the check with the creator-or-admin test left out
can_resolve_any_member(u, pid) == is_member(predictions[pid].group_id, u)

can_resolve(u, pid) ==
    /\ is_member(predictions[pid].group_id, u)
    /\ \/ predictions[pid].creator_id = u
       \/ get_membership(predictions[pid].group_id, u).value.role = "admin"

\* the HTTP status of POST /api/predictions/{id}/resolve; an uncaught
\* MultipleResultsFound is answered with 500
resolve_prediction_response(u, pid, outcome) ==
    IF outcome = "open" THEN 400
    ELSE IF pid \notin PredictionIds THEN 404
    ELSE IF predictions[pid].status # "open" THEN 400
    ELSE IF ~one_or_none(membership_rows(predictions[pid].group_id, u)) THEN 500
    ELSE IF ~can_resolve(u, pid) THEN 403
    ELSE 200

\* the HTTP status of the form POST /predictions/{id}/resolve
resolve_prediction_page_response(u, pid, outcome) ==
    IF pid \notin PredictionIds THEN 404
    ELSE IF ~one_or_none(membership_rows(predictions[pid].group_id, u)) THEN 500
    ELSE IF ~can_resolve(u, pid) THEN 403
    ELSE 303

resolve_prediction(u, pid, outcome) ==
    /\ outcome # "open"
    /\ pid \in PredictionIds
    /\ predictions[pid].status = "open"
    /\ can_resolve(u, pid)
    /\ Decide(ResolvePrediction(pid, outcome), FALSE)
    /\ UNCHANGED <<now, harness_vars>>

resolve_prediction_page(u, pid, outcome) ==
    /\ pid \in PredictionIds
    /\ can_resolve(u, pid)
    /\ Decide(ResolvePrediction(pid, outcome), FALSE)
    /\ UNCHANGED <<now, harness_vars>>

\* ------------------------------------------------------------- statistics
\* the (probability, outcome) pairs of a list of forecast ids
forecast_data(ids) ==
    [k \in DOMAIN ids |->
        <<forecasts[ids[k]].probability,
          predictions[forecasts[ids[k]].prediction_id].status>>]

\* the gate with the deadline itself counted as before it
locked_in_inclusive(i) ==
    forecasts[i].created_at <= lock_in_at(predictions[forecasts[i].prediction_id])

\* a forecast made before its prediction's lock-in deadline
locked_in(i) ==
    forecasts[i].created_at < lock_in_at(predictions[forecasts[i].prediction_id])

\* a forecast on a resolved prediction, made before the lock-in deadline
resolved_and_locked_in(i) ==
    /\ predictions[forecasts[i].prediction_id].status # "open"
    /\ locked_in(i)

\* the stats with the scored forecasts counted as resolved_forecasts
UserStats_counting_scored(u, all, resolved) ==
    [user_id |-> u, total_forecasts |-> Cardinality(all),
     resolved_forecasts |-> Len(brier_scores(forecast_data(resolved))),
     average_brier_score |-> calculate_average_brier_score(forecast_data(resolved))]

UserStats(u, all, resolved) ==
    [user_id |-> u, total_forecasts |-> Cardinality(all),
     resolved_forecasts |-> Len(resolved),
     average_brier_score |-> calculate_average_brier_score(forecast_data(resolved))]

\* the forecast ids get_my_stats and get_my_calibration score for user u
my_resolved_forecasts(u) ==
    Ascending({i \in ForecastIds :
        forecasts[i].user_id = u /\ resolved_and_locked_in(i)})

get_my_stats(u) ==
    UserStats(u, {i \in ForecastIds : forecasts[i].user_id = u},
              my_resolved_forecasts(u))

\* the list get_my_calibration hands to calculate_calibration_buckets
my_calibration_forecasts(u) == forecast_data(my_resolved_forecasts(u))

group_prediction_ids(g) == {pid \in PredictionIds : predictions[pid].group_id = g}

\* the forecast ids get_user_stats_in_group scores for user u in group g
group_resolved_forecasts(g, u) ==
    Ascending({i \in ForecastIds :
        /\ forecasts[i].user_id = u
        /\ forecasts[i].prediction_id \in group_prediction_ids(g)
        /\ resolved_and_locked_in(i)})

get_user_stats_in_group(g, u) ==
    UserStats(u, {i \in ForecastIds :
                    /\ forecasts[i].user_id = u
                    /\ forecasts[i].prediction_id \in group_prediction_ids(g)},
              group_resolved_forecasts(g, u))

resolved_prediction_ids(g) ==
    {pid \in PredictionIds :
        predictions[pid].group_id = g /\ predictions[pid].status # "open"}

\* the forecast ids the leaderboard of group g scores for user u
locked_forecasts(g, u) ==
    Ascending({i \in ForecastIds :
        /\ forecasts[i].user_id = u
        /\ forecasts[i].prediction_id \in resolved_prediction_ids(g)
        /\ locked_in(i)})

\* a < b for two defined averages
AverageLess(a, b) == a.num * b.den < b.num * a.den

\* a sort that puts an entry ahead of the earlier entries it ties with
RECURSIVE SortByAverage_ties_reversed(_)
SortByAverage_ties_reversed(entries) ==
    IF entries = <<>> THEN <<>>
    ELSE LET rest == SortByAverage_ties_reversed(SubSeq(entries, 1, Len(entries) - 1))
             last == entries[Len(entries)]
             keep == {k \in DOMAIN rest :
                        AverageLess(rest[k].average_brier_score,
                                    last.average_brier_score)}
             n == Cardinality(keep)
         IN  SubSeq(rest, 1, n) \o <<last>> \o SubSeq(rest, n + 1, Len(rest))

\* list.sort(key=average_brier_score): stable, ascending
RECURSIVE SortByAverage(_)
SortByAverage(entries) ==
    IF entries = <<>> THEN <<>>
    ELSE LET rest == SortByAverage(SubSeq(entries, 1, Len(entries) - 1))
             last == entries[Len(entries)]
             keep == {k \in DOMAIN rest :
                        ~AverageLess(last.average_brier_score,
                                     rest[k].average_brier_score)}
             n == Cardinality(keep)
         IN  SubSeq(rest, 1, n) \o <<last>> \o SubSeq(rest, n + 1, Len(rest))

\* the rows with every forecast on a resolved prediction counted
RECURSIVE leaderboard_rows_counting_all(_, _)
leaderboard_rows_counting_all(g, k) ==
    IF k > Len(memberships) THEN <<>>
    ELSE LET member == memberships[k]
             locked == locked_forecasts(g, member.user_id)
             avg_score == calculate_average_brier_score(forecast_data(locked))
         IN  IF member.group_id # g \/ locked = <<>> \/ avg_score.is_none
             THEN leaderboard_rows_counting_all(g, k + 1)
             ELSE <<[user_id |-> member.user_id,
                     average_brier_score |-> avg_score,
                     forecast_count |->
                         Cardinality({i \in ForecastIds :
                             /\ forecasts[i].user_id = member.user_id
                             /\ forecasts[i].prediction_id
                                    \in resolved_prediction_ids(g)})]>>
                  \o leaderboard_rows_counting_all(g, k + 1)

\* the leaderboard rows of the members from row k on, before sorting
RECURSIVE leaderboard_rows(_, _)
leaderboard_rows(g, k) ==
    IF k > Len(memberships) THEN <<>>
    ELSE LET member == memberships[k]
             locked == locked_forecasts(g, member.user_id)
             avg_score == calculate_average_brier_score(forecast_data(locked))
         IN  IF member.group_id # g \/ locked = <<>> \/ avg_score.is_none
             THEN leaderboard_rows(g, k + 1)
             ELSE <<[user_id |-> member.user_id,
                     average_brier_score |-> avg_score,
                     forecast_count |-> Len(locked)]>>
                  \o leaderboard_rows(g, k + 1)

\* the rows ranked in member order, without the sort
get_group_leaderboard_unsorted(g) ==
    LET leaderboard == leaderboard_rows(g, 1)
    IN  [k \in DOMAIN leaderboard |->
            [rank |-> k, user_id |-> leaderboard[k].user_id,
             average_brier_score |-> leaderboard[k].average_brier_score,
             forecast_count |-> leaderboard[k].forecast_count]]

\* a leaderboard that appends to the list of the previous call
get_group_leaderboard_accumulating(g) ==
    LET rows == leaderboard_shown.entries \o SortByAverage(leaderboard_rows(g, 1))
    IN  [k \in DOMAIN rows |->
            [rank |-> k, user_id |-> rows[k].user_id,
             average_brier_score |-> rows[k].average_brier_score,
             forecast_count |-> rows[k].forecast_count]]

get_group_leaderboard(g) ==
    LET leaderboard == SortByAverage(leaderboard_rows(g, 1))
    IN  [k \in DOMAIN leaderboard |->
            [rank |-> k, user_id |-> leaderboard[k].user_id,
             average_brier_score |-> leaderboard[k].average_brier_score,
             forecast_count |-> leaderboard[k].forecast_count]]

\* the page helper's rows with the scores counted in place of the forecasts
RECURSIVE page_leaderboard_rows_counting_scores(_, _)
page_leaderboard_rows_counting_scores(g, k) ==
    IF k > Len(memberships) THEN <<>>
    ELSE LET member == memberships[k]
             locked == locked_forecasts(g, member.user_id)
             scores == brier_scores(forecast_data(locked))
         IN  IF member.group_id # g \/ locked = <<>> \/ scores = <<>>
             THEN page_leaderboard_rows_counting_scores(g, k + 1)
             ELSE <<[user_id |-> member.user_id,
                     average_brier_score |-> Average(SumSeq(scores), Len(scores)),
                     forecast_count |-> Len(scores)]>>
                  \o page_leaderboard_rows_counting_scores(g, k + 1)

\* the page helper: the rows of the members from row k on, each average
\* taken over the scores calculate_brier_score returns
RECURSIVE page_leaderboard_rows(_, _)
page_leaderboard_rows(g, k) ==
    IF k > Len(memberships) THEN <<>>
    ELSE LET member == memberships[k]
             locked == locked_forecasts(g, member.user_id)
             scores == brier_scores(forecast_data(locked))
         IN  IF member.group_id # g \/ locked = <<>> \/ scores = <<>>
             THEN page_leaderboard_rows(g, k + 1)
             ELSE <<[user_id |-> member.user_id,
                     average_brier_score |-> Average(SumSeq(scores), Len(scores)),
                     forecast_count |-> Len(locked)]>>
                  \o page_leaderboard_rows(g, k + 1)

_calculate_leaderboard(g) ==
    IF resolved_prediction_ids(g) = {} THEN <<>>
    ELSE LET leaderboard == SortByAverage(page_leaderboard_rows(g, 1))
         IN  [k \in DOMAIN leaderboard |->
                 [rank |-> k, user_id |-> leaderboard[k].user_id,
                  average_brier_score |-> leaderboard[k].average_brier_score,
                  forecast_count |-> leaderboard[k].forecast_count]]

\* prediction_page: forecast id -> Brier score shown on the page of prediction pid
brier_scores_shown(pid) ==
    LET shown == {i \in ForecastIds :
                    /\ forecasts[i].prediction_id = pid
                    /\ predictions[pid].status # "open"
                    /\ locked_in(i)
                    /\ ~calculate_brier_score(forecasts[i].probability,
                                              predictions[pid].status).is_none}
    IN  [i \in shown |->
            calculate_brier_score(forecasts[i].probability,
                                  predictions[pid].status).value]

\* --------------------------------------------------------- scoring harness
score_one(probability, outcome) ==
    /\ scored' = [probability |-> probability, outcome |-> outcome,
                  score |-> calculate_brier_score(probability, outcome)]
    /\ UNCHANGED <<app_vars, inputs, averaged, calibration, leaderboard_shown>>

average_list(probability, outcome) ==
    /\ Len(inputs) < MaxLen
    /\ inputs' = Append(inputs, <<probability, outcome>>)
    /\ averaged' = calculate_average_brier_score(inputs')
    /\ UNCHANGED <<app_vars, scored, calibration, leaderboard_shown>>

\* nine (0.05, no) and one (0.05, yes)
NineNoOneYes ==
    [k \in 1 .. 10 |-> <<5, IF k = 10 THEN "resolved_yes" ELSE "resolved_no">>]

Calibrated(fs) == [forecasts |-> fs, buckets |-> calculate_calibration_buckets(fs)]

\* ------------------------------------------------------------ read requests
NotAsked == [asked |-> FALSE, entries |-> <<>>]

\* GET /api/stats/leaderboard/{group_id}
get_group_leaderboard_request(g) ==
    /\ leaderboard_shown' = [asked |-> TRUE, entries |-> get_group_leaderboard(g)]
    /\ UNCHANGED <<app_vars, scored, inputs, averaged, calibration>>

\* GET /leaderboard
leaderboard_page(g) ==
    /\ leaderboard_shown' = [asked |-> TRUE, entries |-> _calculate_leaderboard(g)]
    /\ UNCHANGED <<app_vars, scored, inputs, averaged, calibration>>

\* GET /api/stats/me/calibration
get_my_calibration(u) ==
    /\ calibration' = Calibrated(my_calibration_forecasts(u))
    /\ UNCHANGED <<app_vars, scored, inputs, averaged, leaderboard_shown>>

calibrate_list(probability, outcome) ==
    /\ Len(calibration.forecasts) < MaxLen
    /\ calibration' = Calibrated(Append(calibration.forecasts, <<probability, outcome>>))
    /\ UNCHANGED <<app_vars, scored, inputs, averaged, leaderboard_shown>>

\* ---------------------------------------------------------- specification
\* One group exists, created by user 1, who is its admin (create_group).
AppInit ==
    /\ now = 0
    /\ memberships = <<[user_id |-> 1, group_id |-> 1, role |-> "admin"]>>
    /\ predictions = <<>>
    /\ forecasts = <<>>
    /\ pending = Idle

HarnessIdle ==
    /\ inputs = <<>>
    /\ scored = [probability |-> 0, outcome |-> "resolved_no",
                 score |-> calculate_brier_score(0, "resolved_no")]
    /\ averaged = calculate_average_brier_score(<<>>)
    /\ calibration = Calibrated(<<>>)
    /\ leaderboard_shown = NotAsked

Init == AppInit /\ HarnessIdle

Next ==
    \/ Tick
    \/ flush
    \/ \E held \in BOOLEAN, u \in Users, g \in Groups : join_group(held, u, g)
    \/ \E u \in Users, g \in Groups, rd \in ResolutionDates :
            create_prediction(u, g, rd)
    \/ \E u \in Users, g \in Groups, rd \in ResolutionDates, pr \in Probabilities :
            create_prediction_submit(u, g, rd, pr)
    \/ \E held \in BOOLEAN, u \in Users, pid \in PredictionIds, pr \in Probabilities :
            create_forecast(held, u, pid, pr)
    \/ \E held \in BOOLEAN, u \in Users, fid \in ForecastIds, pr \in Probabilities :
            update_forecast(held, u, fid, pr)
    \/ \E held \in BOOLEAN, u \in Users, pid \in PredictionIds, pr \in Probabilities :
            submit_forecast(held, u, pid, pr)
    \/ \E u \in Users, pid \in PredictionIds, o \in PredictionStatus :
            resolve_prediction(u, pid, o)
    \/ \E u \in Users, pid \in PredictionIds, o \in PredictionStatus :
            resolve_prediction_page(u, pid, o)

Spec == Init /\ [][Next]_vars

\* calculate_brier_score on every probability in hundredths and every outcome
ScoreNext ==
    \E pr \in ScoreProbabilities, o \in Outcomes : score_one(pr, o)

ScoreSpec == Init /\ [][ScoreNext]_vars

\* calculate_average_brier_score on every list of at most MaxLen pairs
AverageNext ==
    \E pr \in ListProbabilities, o \in Outcomes : average_list(pr, o)

AverageSpec == Init /\ [][AverageNext]_vars

\* calculate_calibration_buckets on every list of at most MaxLen pairs, and
\* on the list of nine (0.05, no) and one (0.05, yes)
CalibrationInit ==
    /\ AppInit
    /\ inputs = <<>>
    /\ scored = [probability |-> 0, outcome |-> "resolved_no",
                 score |-> calculate_brier_score(0, "resolved_no")]
    /\ averaged = calculate_average_brier_score(<<>>)
    /\ calibration \in {Calibrated(<<>>), Calibrated(NineNoOneYes)}
    /\ leaderboard_shown = NotAsked

CalibrationNext ==
    \E pr \in CalibrationProbabilities, o \in Outcomes : calibrate_list(pr, o)

CalibrationSpec == CalibrationInit /\ [][CalibrationNext]_vars

\* the read requests over a frozen set of members, predictions and
\* forecasts: up to MaxReadPredictions predictions made at 0 to resolve at
\* MaxTime + 1, each in any status, and up to MaxForecasts forecasts in the
\* order they were made, at most one of them made at or after lock-in
FrozenPredictions ==
    LET rows == {[group_id |-> 1, creator_id |-> 1, resolution_date |-> MaxTime + 1,
                  status |-> st,
                  resolved_at |-> IF st = "open" THEN None ELSE Some(MaxTime),
                  created_at |-> 0] : st \in PredictionStatus}
    IN  UNION {[1 .. n -> rows] : n \in 1 .. MaxReadPredictions}

FrozenForecasts(n) ==
    LET rows == {[prediction_id |-> pid, user_id |-> u, probability |-> pr,
                  created_at |-> t, updated_at |-> t] :
                      pid \in 1 .. n, u \in Users, pr \in Probabilities,
                      t \in 0 .. MaxTime}
    IN  {fs \in UNION {[1 .. k -> rows] : k \in 0 .. MaxForecasts} :
            /\ \A j, k \in DOMAIN fs : j < k => fs[j].created_at <= fs[k].created_at
            /\ Cardinality({k \in DOMAIN fs : fs[k].created_at >= MaxTime}) <= 1}

ReadInit ==
    /\ now = MaxTime
    /\ memberships = <<[user_id |-> 1, group_id |-> 1, role |-> "admin"],
                       [user_id |-> 2, group_id |-> 1, role |-> "member"]>>
    /\ predictions \in FrozenPredictions
    /\ forecasts \in FrozenForecasts(Len(predictions))
    /\ pending = Idle
    /\ HarnessIdle

ReadNext ==
    \/ \E g \in Groups : get_group_leaderboard_request(g)
    \/ \E g \in Groups : leaderboard_page(g)
    \/ \E u \in Users : get_my_calibration(u)

ReadSpec == ReadInit /\ [][ReadNext]_vars

\* ============================================================ properties

\* C1: over any sequence of resolve requests (API and form handler) a
\* prediction's status changes at most once: it only ever changes from open
\* to resolved_yes, resolved_no or ambiguous; any other resolve leaves it
\* unchanged.
C1_StatusChangesAtMostOnce ==
    [][\A pid \in PredictionIds :
          predictions'[pid].status # predictions[pid].status =>
              /\ predictions[pid].status = "open"
              /\ predictions'[pid].status \in Outcomes]_vars

\* C2: no forecast is created, and no forecast's probability changes, at a
\* time >= the lock_in_at of its prediction, on any forecast write path.
C2_NoForecastWriteAfterLockIn ==
    [][\A i \in DOMAIN forecasts' :
          (i \notin ForecastIds \/ forecasts'[i].probability # forecasts[i].probability)
              => now' < lock_in_at(predictions'[forecasts'[i].prediction_id])]_vars

\* forecasts of user u on a non-open prediction, created strictly before
\* that prediction's lock_in_at
Qualifying(u) ==
    {i \in ForecastIds :
        /\ forecasts[i].user_id = u
        /\ predictions[forecasts[i].prediction_id].status \in Outcomes
        /\ forecasts[i].created_at
               < lock_in_at(predictions[forecasts[i].prediction_id])}

QualifyingIn(g, u) ==
    {i \in Qualifying(u) : predictions[forecasts[i].prediction_id].group_id = g}

ScoreOf(i) ==
    LET actual == IF predictions[forecasts[i].prediction_id].status = "resolved_yes"
                  THEN ProbDen ELSE 0
    IN  (forecasts[i].probability - actual) * (forecasts[i].probability - actual)

RECURSIVE SumOfScores(_)
SumOfScores(S) ==
    IF S = {} THEN 0
    ELSE LET i == CHOOSE x \in S : TRUE IN ScoreOf(i) + SumOfScores(S \ {i})

\* the mean Brier score over the forecasts of S that are not on an ambiguous
\* prediction
MeanOver(S) ==
    LET scorable == {i \in S :
            predictions[forecasts[i].prediction_id].status # "ambiguous"}
    IN  IF scorable = {} THEN NoAverage
        ELSE Average(SumOfScores(scorable), Cardinality(scorable))

Range(f) == {f[x] : x \in DOMAIN f}

\* C3: in every statistic a forecast contributes to a score, a resolved count
\* or the calibration input only if its prediction is non-open and its
\* created_at is strictly before that prediction's lock_in_at: each count and
\* average is the one taken over exactly those forecasts.
C3_OnlyQualifyingForecastsContribute ==
    /\ \A u \in Users :
        /\ get_my_stats(u).resolved_forecasts = Cardinality(Qualifying(u))
        /\ get_my_stats(u).average_brier_score = MeanOver(Qualifying(u))
        /\ Range(my_resolved_forecasts(u)) = Qualifying(u)
        /\ Len(my_calibration_forecasts(u)) = Cardinality(Qualifying(u))
        /\ \A g \in Groups :
            /\ get_user_stats_in_group(g, u).resolved_forecasts
                   = Cardinality(QualifyingIn(g, u))
            /\ get_user_stats_in_group(g, u).average_brier_score
                   = MeanOver(QualifyingIn(g, u))
    /\ \A g \in Groups : \A k \in DOMAIN get_group_leaderboard(g) :
        LET entry == get_group_leaderboard(g)[k]
        IN  /\ entry.forecast_count = Cardinality(QualifyingIn(g, entry.user_id))
            /\ entry.average_brier_score = MeanOver(QualifyingIn(g, entry.user_id))
    /\ \A pid \in PredictionIds :
        DOMAIN brier_scores_shown(pid) \subseteq
            UNION {Qualifying(u) : u \in Users}

\* a resolved prediction with one forecast that counts and one, made at or
\* after lock-in, that does not
C3_Witness ==
    \E i, j \in ForecastIds :
        /\ forecasts[i].prediction_id = forecasts[j].prediction_id
        /\ predictions[forecasts[i].prediction_id].status = "resolved_yes"
        /\ i \in Qualifying(forecasts[i].user_id)
        /\ forecasts[j].created_at
               >= lock_in_at(predictions[forecasts[j].prediction_id])
        /\ get_my_stats(forecasts[i].user_id).resolved_forecasts = 1
        /\ get_my_stats(forecasts[j].user_id).resolved_forecasts = 0
        /\ get_my_stats(forecasts[j].user_id).total_forecasts = 1
        /\ Len(get_group_leaderboard(1)) = 1

\* C4: in every reachable state there is at most one Forecast per
\* (user_id, prediction_id) pair, also when two creates of the same user for
\* the same prediction interleave.
C4_AtMostOneForecastPerUserAndPrediction ==
    \A i, j \in ForecastIds :
        (/\ forecasts[i].user_id = forecasts[j].user_id
         /\ forecasts[i].prediction_id = forecasts[j].prediction_id) => i = j

\* the forecast's eligibility gate: created_at < lock_in_at of its prediction
Eligible(fs, ps, i) == fs[i].created_at < lock_in_at(ps[fs[i].prediction_id])

\* C5: an edit changes only probability (and updated_at) of the edited
\* forecast and leaves every forecast's created_at, user_id and prediction_id
\* as they were, so eligibility (created_at < lock_in_at) is the same before
\* and after any number of edits; the probability scored after resolution is
\* the stored one.
C5_EditsKeepIdentityAndEligibility ==
    /\ [][\A i \in ForecastIds :
            /\ i \in DOMAIN forecasts'
            /\ forecasts'[i].created_at = forecasts[i].created_at
            /\ forecasts'[i].user_id = forecasts[i].user_id
            /\ forecasts'[i].prediction_id = forecasts[i].prediction_id
            /\ Eligible(forecasts', predictions', i) = Eligible(forecasts, predictions, i)
            /\ (pending.op = "update_forecast" /\ pending' = Idle) =>
                  forecasts'[i].probability =
                      IF i = pending.forecast_id THEN pending.probability
                      ELSE forecasts[i].probability]_vars
    /\ [](\A pid \in PredictionIds : \A i \in DOMAIN brier_scores_shown(pid) :
            brier_scores_shown(pid)[i] = ScoreOf(i))

\* an edited forecast (updated_at after created_at) that counts and is scored
\* on a resolved prediction
C5_Witness ==
    \E i \in ForecastIds :
        /\ forecasts[i].updated_at > forecasts[i].created_at
        /\ forecasts[i].probability = 0
        /\ predictions[forecasts[i].prediction_id].status = "resolved_no"
        /\ i \in DOMAIN brier_scores_shown(forecasts[i].prediction_id)
        /\ get_my_stats(forecasts[i].user_id).average_brier_score = Average(0, 1)

C7_LockedIffPastLockInAndNeverUnlocked ==
    /\ [](\A pid \in PredictionIds :
            is_locked(predictions[pid]) <=> now >= lock_in_at(predictions[pid]))
    /\ [][\A pid \in PredictionIds :
            is_locked(predictions[pid]) => is_locked(predictions[pid])']_vars

\* a prediction that was unlocked when created, is locked now, at exactly
\* lock_in_at, and is resolved
C7_Witness ==
    \E pid \in PredictionIds :
        /\ predictions[pid].created_at < lock_in_at(predictions[pid])
        /\ now = lock_in_at(predictions[pid])
        /\ is_locked(predictions[pid])
        /\ predictions[pid].status = "ambiguous"

\* C8: for p in [0,1] and outcome resolved_yes / resolved_no the score is
\* (p - actual)^2 with actual 1 / 0; it lies in [0,1]; it is 0 at (1, yes)
\* and (0, no), 1 at (0, yes) and (1, no), 0.25 at p = 0.5.
C8_BrierScoreIsSquaredError ==
    scored.outcome \in {"resolved_yes", "resolved_no"} =>
        LET p == scored.probability
            yes == scored.outcome = "resolved_yes"
        IN  /\ ~scored.score.is_none
            /\ yes => scored.score.value = (p - ProbDen) * (p - ProbDen)
            /\ ~yes => scored.score.value = p * p
            /\ scored.score.value \in 0 .. ProbDen * ProbDen
            /\ (p = ProbDen /\ yes) => scored.score.value = 0
            /\ (p = 0 /\ ~yes) => scored.score.value = 0
            /\ (p = 0 /\ yes) => scored.score.value = ProbDen * ProbDen
            /\ (p = ProbDen /\ ~yes) => scored.score.value = ProbDen * ProbDen
            /\ 2 * p = ProbDen => 4 * scored.score.value = ProbDen * ProbDen

\* the no-information forecast 0.5 scored against resolved_yes
C8_Witness ==
    /\ scored.outcome = "resolved_yes"
    /\ 2 * scored.probability = ProbDen
    /\ 4 * scored.score.value = ProbDen * ProbDen

\* C9: against an ambiguous outcome the score is None for every p, which is
\* a result (not an error) and differs from the score 0.
C9_AmbiguousIsExcluded ==
    scored.outcome = "ambiguous" =>
        /\ scored.score = None
        /\ scored.score # Some(0)

\* probability 0 scored against ambiguous: as resolved_no it would score 0
C9_Witness ==
    /\ scored.outcome = "ambiguous"
    /\ scored.probability = 0
    /\ scored.score.is_none

\* C10: the average is undefined iff the list has no resolved_yes /
\* resolved_no entry (the empty list, or any number of ambiguous entries);
\* the undefined result is one value, and it is not the average 0.
C10_AverageUndefinedIffNothingScorable ==
    LET scorable == {k \in DOMAIN inputs :
                        inputs[k][2] \in {"resolved_yes", "resolved_no"}}
    IN  /\ averaged.is_none <=> scorable = {}
        /\ scorable = {} => averaged = NoAverage
        /\ averaged # Average(0, 1) \/ scorable # {}

\* a list of MaxLen - 1 or more entries, all ambiguous, averaged
C10_Witness ==
    /\ Len(inputs) >= 2
    /\ \A k \in DOMAIN inputs : inputs[k][2] = "ambiguous"
    /\ averaged.is_none

\* the entries of a list that are not ambiguous, in their order
WithoutAmbiguous(fs) == SelectSeq(fs, LAMBDA e : e[2] # "ambiguous")

\* the squared error of one (probability, outcome) pair
PairScore(e) ==
    LET actual == IF e[2] = "resolved_yes" THEN ProbDen ELSE 0
    IN  (e[1] - actual) * (e[1] - actual)

InsertAt(fs, k, e) == SubSeq(fs, 1, k) \o <<e>> \o SubSeq(fs, k + 1, Len(fs))
RemoveAt(fs, k) == SubSeq(fs, 1, k - 1) \o SubSeq(fs, k + 1, Len(fs))

\* C11: the average of a list equals the average of the list with its
\* ambiguous entries removed and the arithmetic mean of the scores of the
\* remaining entries; adding an ambiguous entry at any position, or removing
\* one, never changes the result.
C11_AmbiguousEntriesAreDropped ==
    LET kept == WithoutAmbiguous(inputs)
    IN  /\ averaged = calculate_average_brier_score(kept)
        /\ averaged = IF kept = <<>> THEN NoAverage
                      ELSE Average(SumSeq([k \in DOMAIN kept |-> PairScore(kept[k])]),
                                   Len(kept))
        /\ \A k \in 0 .. Len(inputs) : \A pr \in ListProbabilities :
              calculate_average_brier_score(InsertAt(inputs, k, <<pr, "ambiguous">>))
                  = averaged
        /\ \A k \in DOMAIN inputs :
              inputs[k][2] = "ambiguous" =>
                  calculate_average_brier_score(RemoveAt(inputs, k)) = averaged

\* (0.9, yes), (0.5, ambiguous), (0.1, no) averages 0.01, as (0.9, yes),
\* (0.1, no) does
C11_Witness ==
    /\ inputs = <<<<90, "resolved_yes">>, <<50, "ambiguous">>, <<10, "resolved_no">>>>
    /\ averaged = Average(100 + 100, 2)
    /\ averaged = calculate_average_brier_score(
                      <<<<90, "resolved_yes">>, <<10, "resolved_no">>>>)

\* the bucket index of p, p in hundredths: min(floor(p / width), count - 1)
ExactBucket(p) ==
    IF (p * num_buckets) \div ProbDen < num_buckets - 1
    THEN (p * num_buckets) \div ProbDen ELSE num_buckets - 1

\* the buckets of the result that hold the k-th input entry
BucketsHolding(k) ==
    {b \in DOMAIN calibration.buckets :
        calibration.buckets[b].bucket_start
            = bucket_idx(calibration.forecasts[k][1]) * (ProbDen \div num_buckets)}

\* C12: each non-ambiguous forecast is assigned to exactly one bucket, the
\* one with index min(floor(p / width), bucket_count - 1): p lies in
\* [bucket_start, bucket_end) of its bucket, or p = 1.0 and the bucket is the
\* last one.
C12_BucketIsFloorOfProbabilityOverWidth ==
    \A k \in DOMAIN calibration.forecasts :
        LET p == calibration.forecasts[k][1]
        IN  calibration.forecasts[k][2] # "ambiguous" =>
                /\ Cardinality(BucketsHolding(k)) = 1
                /\ bucket_idx(p) = ExactBucket(p)
                /\ \A b \in BucketsHolding(k) :
                      \/ /\ calibration.buckets[b].bucket_start <= p
                         /\ p < calibration.buckets[b].bucket_end
                      \/ /\ p = ProbDen
                         /\ calibration.buckets[b].bucket_end = ProbDen

\* a forecast list of the harness that holds (0.3, resolved_yes)
C12_Witness ==
    /\ \E k \in DOMAIN calibration.forecasts :
          calibration.forecasts[k] = <<30, "resolved_yes">>
    /\ \E b \in DOMAIN calibration.buckets : calibration.buckets[b].bucket_start = 20

\* the input positions assigned to bucket i
AssignedTo(i) ==
    {k \in DOMAIN calibration.forecasts :
        /\ calibration.forecasts[k][2] # "ambiguous"
        /\ bucket_idx(calibration.forecasts[k][1]) = i}

\* the sum of f[k] over the positions k of S
SumAt(f, S) == SumSeq([k \in DOMAIN f |-> IF k \in S THEN f[k] ELSE 0])

\* C13: for each returned bucket, count is the number of forecasts assigned
\* to it, predicted_probability the mean of their probabilities,
\* actual_frequency the number of resolved_yes among them over count, and
\* bucket_start / bucket_end are index * width and (index + 1) * width; nine
\* (0.05, no) and one (0.05, yes) give one bucket [0.0, 0.1) with count 10,
\* predicted 0.05 and frequency 0.1.
C13_BucketReportsItsMembers ==
    /\ \A b \in DOMAIN calibration.buckets :
        LET bucket == calibration.buckets[b]
            width == ProbDen \div num_buckets
            index == bucket.bucket_start \div width
            members == AssignedTo(index)
            fs == calibration.forecasts
        IN  /\ index \in 0 .. num_buckets - 1
            /\ bucket.bucket_start = index * width
            /\ bucket.bucket_end = (index + 1) * width
            /\ bucket.count = Cardinality(members)
            /\ bucket.predicted_probability =
                   Average(SumAt([k \in DOMAIN fs |-> fs[k][1]], members),
                           Cardinality(members))
            /\ bucket.actual_frequency =
                   Average(Cardinality({k \in members : fs[k][2] = "resolved_yes"}),
                           Cardinality(members))
    /\ calibration.forecasts = NineNoOneYes =>
           calibration.buckets =
               <<[bucket_start |-> 0, bucket_end |-> 10, count |-> 10,
                  predicted_probability |-> Average(5, 1),
                  actual_frequency |-> Average(1, 10)]>>

\* the list of nine (0.05, no) and one (0.05, yes), bucketed
C13_Witness ==
    /\ calibration.forecasts = NineNoOneYes
    /\ Len(calibration.buckets) = 1
    /\ calibration.buckets[1].count = 10

\* C14: the counts of the returned buckets sum to the number of input
\* entries that are not ambiguous, and an ambiguous entry changes no bucket:
\* the result is that of the list without its ambiguous entries, and adding
\* an ambiguous entry at any position leaves it as it is.
C14_AmbiguousExcludedBeforeBinning ==
    LET fs == calibration.forecasts
        buckets == calibration.buckets
    IN  /\ SumSeq([b \in DOMAIN buckets |-> buckets[b].count])
               = Len(WithoutAmbiguous(fs))
        /\ buckets = calculate_calibration_buckets(WithoutAmbiguous(fs))
        /\ Len(fs) <= MaxLen =>
              \A k \in 0 .. Len(fs) : \A pr \in CalibrationProbabilities :
                  calculate_calibration_buckets(InsertAt(fs, k, <<pr, "ambiguous">>))
                      = buckets

\* an ambiguous entry next to a scored entry of the same bucket
C14_Witness ==
    /\ calibration.forecasts
           = <<<<15, "resolved_no">>, <<15, "ambiguous">>, <<85, "ambiguous">>>>
    /\ Len(calibration.buckets) = 1
    /\ calibration.buckets[1].count = 1

\* C15: the result has an entry for a bucket iff at least one forecast was
\* assigned to it: every count is >= 1, no bucket has two entries, the empty
\* input gives the empty list; the entries are in strictly ascending
\* bucket_start order.
C15_OnlyNonEmptyBucketsAscending ==
    LET buckets == calibration.buckets
        width == ProbDen \div num_buckets
    IN  /\ \A i \in 0 .. num_buckets - 1 :
              (\E b \in DOMAIN buckets : buckets[b].bucket_start = i * width)
                  <=> AssignedTo(i) # {}
        /\ \A b \in DOMAIN buckets : buckets[b].count >= 1
        /\ \A a, b \in DOMAIN buckets :
              a < b => buckets[a].bucket_start < buckets[b].bucket_start
        /\ calibration.forecasts = <<>> => buckets = <<>>

\* (0.85, yes) entered before (0.15, no): two buckets, 0.1 before 0.8
C15_Witness ==
    /\ calibration.forecasts = <<<<85, "resolved_yes">>, <<15, "resolved_no">>>>
    /\ Len(calibration.buckets) = 2
    /\ calibration.buckets[1].bucket_start = 10
    /\ calibration.buckets[2].bucket_start = 80

\* the qualifying forecasts of user u in group g that get a score: those on
\* a resolved_yes or resolved_no prediction
Scorable(g, u) ==
    {i \in QualifyingIn(g, u) :
        predictions[forecasts[i].prediction_id].status # "ambiguous"}

\* the positions of user u on the leaderboard of group g
Positions(g, u) ==
    {k \in DOMAIN get_group_leaderboard(g) : get_group_leaderboard(g)[k].user_id = u}

\* a member of group g appears on its leaderboard iff they have a
\* qualifying forecast on a resolved_yes or resolved_no prediction of g, and
\* then with a defined average
AppearsIffScorable ==
    \A g \in Groups : \A u \in Users :
        /\ membership_rows(g, u) # {} => (Positions(g, u) # {} <=> Scorable(g, u) # {})
        /\ membership_rows(g, u) = {} => Positions(g, u) = {}
        /\ \A k \in Positions(g, u) :
              ~get_group_leaderboard(g)[k].average_brier_score.is_none

\* C16: a group member appears on the group leaderboard iff they have at
\* least one forecast on a resolved_yes or resolved_no prediction of the
\* group made before its lock_in_at; a member without one does not appear at
\* all, and each member appears at most once.
C16_MembersWithScorableForecastsAppearOnce ==
    /\ AppearsIffScorable
    /\ \A g \in Groups : \A u \in Users : Cardinality(Positions(g, u)) <= 1

\* a leaderboard row of user u with an average of n ten-thousandths
Row(u, n) == [user_id |-> u, average_brier_score |-> Average(n, 1), forecast_count |-> 1]

\* C17: the leaderboard is ordered by non-decreasing average Brier score and
\* the entry at position i has rank i, so the ranks are 1..n without gaps or
\* repeats, also among equal scores; an average of 0.04 sorts ahead of 0.25.
C17_OrderedByScoreRankedByPosition ==
    /\ \A g \in Groups :
        LET lb == get_group_leaderboard(g)
        IN  /\ \A k \in DOMAIN lb : lb[k].rank = k
            /\ {lb[k].rank : k \in DOMAIN lb} = 1 .. Len(lb)
            /\ \A j, k \in DOMAIN lb :
                  j < k => ~AverageLess(lb[k].average_brier_score,
                                        lb[j].average_brier_score)
    /\ SortByAverage(<<Row(1, 2500), Row(2, 400)>>) = <<Row(2, 400), Row(1, 2500)>>

\* the second member of the member list ranked 1 with average 0, ahead of the
\* first member at rank 2 with average 0.25
C17_Witness ==
    LET lb == get_group_leaderboard(1)
    IN  /\ Len(lb) = 2
        /\ lb[1].user_id = 2 /\ lb[1].rank = 1 /\ lb[1].average_brier_score = Average(0, 1)
        /\ lb[2].user_id = 1 /\ lb[2].rank = 2
        /\ lb[2].average_brier_score = Average(2500, 1)

\* two entries of different users with equal averages are in member-list order
TiesInMemberOrder(lb, g) ==
    \A j, k \in DOMAIN lb :
        (/\ j < k
         /\ lb[j].user_id # lb[k].user_id
         /\ lb[j].average_brier_score = lb[k].average_brier_score)
            => Min(membership_rows(g, lb[j].user_id))
                   < Min(membership_rows(g, lb[k].user_id))

\* C18: two members with equal average Brier score appear in the same
\* relative order as in the member list the leaderboard was computed from,
\* in the API leaderboard and in the page helper.
C18_TiesKeepMemberOrder ==
    \A g \in Groups :
        /\ TiesInMemberOrder(get_group_leaderboard(g), g)
        /\ TiesInMemberOrder(_calculate_leaderboard(g), g)

\* both members on the leaderboard with the same average
C18_Witness ==
    LET lb == get_group_leaderboard(1)
    IN  /\ Len(lb) = 2
        /\ lb[1].user_id = 1 /\ lb[2].user_id = 2
        /\ lb[1].average_brier_score = lb[2].average_brier_score
        /\ _calculate_leaderboard(1) = lb

\* C19: each leaderboard entry's forecast_count is the number of the
\* member's forecasts whose prediction is in the group's resolved set and
\* whose created_at precedes that prediction's lock_in_at.
C19_ForecastCountIsQualifyingCount ==
    \A g \in Groups : \A k \in DOMAIN get_group_leaderboard(g) :
        LET entry == get_group_leaderboard(g)[k]
        IN  entry.forecast_count =
                Cardinality({i \in ForecastIds :
                    /\ forecasts[i].user_id = entry.user_id
                    /\ predictions[forecasts[i].prediction_id].group_id = g
                    /\ predictions[forecasts[i].prediction_id].status # "open"
                    /\ forecasts[i].created_at
                           < lock_in_at(predictions[forecasts[i].prediction_id])})

\* a member with two forecasts on a resolved prediction, one made before
\* lock-in and one not, listed with forecast_count 1
C19_Witness ==
    \E k \in DOMAIN get_group_leaderboard(1) :
        LET entry == get_group_leaderboard(1)[k]
        IN  /\ entry.forecast_count = 1
            /\ Cardinality({i \in ForecastIds :
                    /\ forecasts[i].user_id = entry.user_id
                    /\ predictions[forecasts[i].prediction_id].status # "open"}) = 2

C21_ResolvedAtSetOnceOnLeavingOpen ==
    [][\A pid \in DOMAIN predictions' :
          /\ predictions'[pid].status = "open" => predictions'[pid].resolved_at.is_none
          /\ pid \in PredictionIds =>
                /\ predictions'[pid].resolved_at # predictions[pid].resolved_at =>
                      /\ predictions[pid].status = "open"
                      /\ predictions'[pid].status # "open"
                /\ (predictions[pid].status = "open"
                        /\ predictions'[pid].status # "open") =>
                      ~predictions'[pid].resolved_at.is_none]_vars

\* C22: every stored prediction has resolution_date strictly after its
\* created_at, so that created_at < lock_in_at < resolution_date.
C22_ResolutionDateAfterCreation ==
    \A pid \in PredictionIds :
        /\ predictions[pid].created_at < predictions[pid].resolution_date
        /\ predictions[pid].created_at < lock_in_at(predictions[pid])
        /\ lock_in_at(predictions[pid]) < predictions[pid].resolution_date

\* the prediction a decided forecast write is for
WriteTarget(w) ==
    IF w.op = "update_forecast" THEN forecasts[w.forecast_id].prediction_id
    ELSE w.prediction_id

\* a step in which a suspended request resumes and writes
Resumes == pending # Idle /\ pending' = Idle

Authorized(u, pid) ==
    \E i \in membership_rows(predictions[pid].group_id, u) :
        predictions[pid].creator_id = u \/ memberships[i].role = "admin"

\* a resolve request of an authorised caller that the state accepts with
\* the outcome the prediction ends the step with
ResolvedByAuthorized(pid) ==
    \E u \in Users :
        /\ Authorized(u, pid)
        /\ \/ resolve_prediction_response(u, pid, predictions'[pid].status) = 200
           \/ resolve_prediction_page_response(u, pid, predictions'[pid].status) = 303

\* status or resolved_at of a prediction changes only in a step that
\* accepts a resolve request of an authorised caller, and the handlers
\* accept exactly the requests they answer with 200 (API) or 303 (form)
OnlyAuthorizedResolve ==
    /\ [](\A u \in Users, pid \in PredictionIds, o \in PredictionStatus :
            /\ (ENABLED resolve_prediction(u, pid, o))
                   <=> resolve_prediction_response(u, pid, o) = 200
            /\ (ENABLED resolve_prediction_page(u, pid, o))
                   <=> resolve_prediction_page_response(u, pid, o) = 303
            /\ ~Authorized(u, pid) =>
                  /\ resolve_prediction_response(u, pid, o) # 200
                  /\ resolve_prediction_page_response(u, pid, o) # 303)
    /\ [][\A pid \in PredictionIds :
            (\/ predictions'[pid].status # predictions[pid].status
             \/ predictions'[pid].resolved_at # predictions[pid].resolved_at)
                => ResolvedByAuthorized(pid)]_vars

\* C24 as stated: a resolve request changes a prediction only for an
\* authorised caller; for any other caller both handlers answer 403 and
\* status and resolved_at are unchanged.
C24_UnauthorizedResolveAnswered403 ==
    /\ OnlyAuthorizedResolve
    /\ [](\A u \in Users, pid \in PredictionIds, o \in PredictionStatus :
            ~Authorized(u, pid) =>
                /\ resolve_prediction_response(u, pid, o) = 403
                /\ resolve_prediction_page_response(u, pid, o) = 403)

\* C24 amended: a resolve request changes a prediction only for an
\* authorised caller; for any other caller the request is rejected and
\* status and resolved_at are unchanged.  The answer is 403 when the request
\* reaches the authorisation check: always in the form handler, and in the
\* API handler when the outcome is not open and the prediction is open
\* (otherwise the API answers 400 first).  A caller with two membership
\* rows, authorised or not, is answered 500 where the membership is read.
C24_UnauthorizedResolveRejected ==
    /\ OnlyAuthorizedResolve
    /\ [](\A u \in Users, pid \in PredictionIds, o \in PredictionStatus :
            (/\ ~Authorized(u, pid)
             /\ one_or_none(membership_rows(predictions[pid].group_id, u))) =>
                /\ resolve_prediction_page_response(u, pid, o) = 403
                /\ resolve_prediction_response(u, pid, o) =
                      IF o = "open" \/ predictions[pid].status # "open"
                      THEN 400 ELSE 403)
    /\ [](\A u \in Users, pid \in PredictionIds, o \in PredictionStatus :
            ~one_or_none(membership_rows(predictions[pid].group_id, u)) =>
                /\ resolve_prediction_page_response(u, pid, o) = 500
                /\ resolve_prediction_response(u, pid, o) \in {400, 500})

\* a prediction resolved by its authorised creator, and a plain member who
\* is not its creator, whose API resolve is answered 400 and whose form
\* resolve is answered 403
C24_Witness ==
    \E pid \in PredictionIds, u \in Users :
        /\ predictions[pid].status = "resolved_yes"
        /\ Authorized(predictions[pid].creator_id, pid)
        /\ is_member(predictions[pid].group_id, u)
        /\ ~Authorized(u, pid)
        /\ resolve_prediction_response(u, pid, "resolved_no") = 400
        /\ resolve_prediction_page_response(u, pid, "resolved_no") = 403

\* the forecasts a step creates or changes
Written ==
    {i \in DOMAIN forecasts' : i \notin ForecastIds \/ forecasts'[i] # forecasts[i]}

\* C25: update_forecast changes a forecast only for its owner: a request of
\* any other user, member or admin of the group included, is answered 403
\* and changes nothing; on every write path the forecast a request creates
\* or changes carries the user_id of the requesting user.
C25_OnlyTheOwnerWritesAForecast ==
    /\ [](\A u \in Users, fid \in ForecastIds, pr \in Probabilities :
            /\ (ENABLED update_forecast(FALSE, u, fid, pr))
                   <=> update_forecast_response(u, fid) = 200
            /\ forecasts[fid].user_id # u =>
                  /\ update_forecast_response(u, fid) = 403
                  /\ \A held \in BOOLEAN : ~ENABLED update_forecast(held, u, fid, pr))
    /\ [](\A u \in Users, pid \in PredictionIds :
            forecast_rows(pid, u) # {} =>
                forecasts[Min(forecast_rows(pid, u))].user_id = u)
    /\ [][/\ (pending' # pending /\ pending'.op = "update_forecast") =>
                forecasts[pending'.forecast_id].user_id = pending'.user_id
          /\ Resumes => \A i \in Written : forecasts'[i].user_id = pending.user_id
          /\ ~Resumes => \A i \in Written \cap ForecastIds :
                /\ forecasts'[i].user_id = forecasts[i].user_id
                /\ update_forecast_response(forecasts[i].user_id, i) = 200
                /\ \A u \in Users \ {forecasts[i].user_id} :
                      update_forecast_response(u, i) = 403]_vars

\* a forecast of user 2 in group 1, on an open prediction that is not
\* locked, that user 2 has edited; user 1, the group's admin, is answered
\* 403 and user 2 is answered 200
C25_Witness ==
    \E fid \in ForecastIds :
        /\ forecasts[fid].user_id = 2
        /\ forecasts[fid].updated_at > forecasts[fid].created_at
        /\ is_member(predictions[forecasts[fid].prediction_id].group_id, 1)
        /\ get_membership(predictions[forecasts[fid].prediction_id].group_id, 1).value.role
               = "admin"
        /\ update_forecast_response(1, fid) = 403
        /\ update_forecast_response(2, fid) = 200

\* C26: in every reachable state there is at most one GroupMembership per
\* (user_id, group_id), also when two join requests of the same user for the
\* same group interleave.
C26_AtMostOneMembershipPerUserAndGroup ==
    \A u \in Users, g \in Groups : Cardinality(membership_rows(g, u)) <= 1

\* C27: every stored forecast is eligible for scoring: in every reachable
\* state each forecast has created_at < lock_in_at of its prediction, also
\* when the clock advances between the is_locked check and the stamping of
\* created_at, and for the initial forecast of create_prediction_submit.
C27_StoredForecastsAreEligible ==
    \A i \in ForecastIds : Eligible(forecasts, predictions, i)

\* C28: once a prediction is non-open the probability of each of its
\* forecasts never changes again, also when an update_forecast or
\* submit_forecast request and a resolve request for it interleave.
C28_ProbabilityFrozenOnceResolved ==
    [][\A i \in ForecastIds :
          predictions[forecasts[i].prediction_id].status # "open" =>
              forecasts'[i].probability = forecasts[i].probability]_vars

\* C29: for every state of the members, predictions and forecasts of a
\* group the API get_group_leaderboard and the page helper
\* _calculate_leaderboard return the same sequence of entries (users, order,
\* average_brier_score, forecast_count, rank); with no resolved prediction
\* in the group both return the empty list.
C29_LeaderboardsAgree ==
    \A g \in Groups :
        /\ get_group_leaderboard(g) = _calculate_leaderboard(g)
        /\ resolved_prediction_ids(g) = {} =>
              /\ get_group_leaderboard(g) = <<>>
              /\ _calculate_leaderboard(g) = <<>>

\* both implementations have answered with the two-entry leaderboard of a
\* group in which user 2, the later member, is ranked ahead of user 1
C29_Witness ==
    /\ leaderboard_shown.asked
    /\ leaderboard_shown.entries = _calculate_leaderboard(1)
    /\ leaderboard_shown.entries = get_group_leaderboard(1)
    /\ Len(leaderboard_shown.entries) = 2
    /\ leaderboard_shown.entries[1].user_id = 2
    /\ leaderboard_shown.entries[2].user_id = 1

\* the forecasts of S that receive a Brier score
Scored(S) ==
    {i \in S : predictions[forecasts[i].prediction_id].status # "ambiguous"}

\* the entries of both leaderboards of group g
LeaderboardEntries(g) ==
    Range(get_group_leaderboard(g)) \cup Range(_calculate_leaderboard(g))

\* C30 as stated: forecast_count of every leaderboard entry, and
\* resolved_forecasts of every UserStats with a non-null average, is the
\* number of that user's forecasts that received a Brier score.
C30_CountIsNumberOfScoredForecasts ==
    /\ \A g \in Groups : \A entry \in LeaderboardEntries(g) :
          entry.forecast_count = Cardinality(Scored(QualifyingIn(g, entry.user_id)))
    /\ \A u \in Users :
          /\ ~get_my_stats(u).average_brier_score.is_none =>
                get_my_stats(u).resolved_forecasts = Cardinality(Scored(Qualifying(u)))
          /\ \A g \in Groups :
                ~get_user_stats_in_group(g, u).average_brier_score.is_none =>
                    get_user_stats_in_group(g, u).resolved_forecasts
                        = Cardinality(Scored(QualifyingIn(g, u)))

\* C30 amended: forecast_count and resolved_forecasts are the number of the
\* user's qualifying forecasts (on a non-open prediction, made before
\* lock-in), those on ambiguous predictions included; the average is taken
\* over the scored ones among them, so the count is at least the number of
\* forecasts averaged and equals it exactly when none of the qualifying
\* forecasts is on an ambiguous prediction.
C30_CountIsNumberOfQualifyingForecasts ==
    /\ \A g \in Groups : \A entry \in LeaderboardEntries(g) :
          /\ entry.forecast_count = Cardinality(QualifyingIn(g, entry.user_id))
          /\ entry.average_brier_score = MeanOver(QualifyingIn(g, entry.user_id))
          /\ Scored(QualifyingIn(g, entry.user_id)) # {}
          /\ entry.forecast_count >= Cardinality(Scored(QualifyingIn(g, entry.user_id)))
          /\ entry.forecast_count = Cardinality(Scored(QualifyingIn(g, entry.user_id)))
                <=> Scored(QualifyingIn(g, entry.user_id)) = QualifyingIn(g, entry.user_id)
    /\ \A u \in Users :
          /\ get_my_stats(u).resolved_forecasts = Cardinality(Qualifying(u))
          /\ get_my_stats(u).average_brier_score = MeanOver(Qualifying(u))
          /\ \A g \in Groups :
                /\ get_user_stats_in_group(g, u).resolved_forecasts
                       = Cardinality(QualifyingIn(g, u))
                /\ get_user_stats_in_group(g, u).average_brier_score
                       = MeanOver(QualifyingIn(g, u))

\* a member with a forecast of 0.50 on a resolved_yes prediction and one on
\* an ambiguous prediction, both made before lock-in: listed by both
\* leaderboards with forecast_count 2 and the average 0.25 of the one score,
\* and reported by get_my_stats with resolved_forecasts 2
C30_Witness ==
    \E u \in Users :
        /\ Cardinality(Qualifying(u)) = 2
        /\ Cardinality(Scored(Qualifying(u))) = 1
        /\ \E entry \in Range(get_group_leaderboard(1)) :
              /\ entry.user_id = u
              /\ entry.forecast_count = 2
              /\ entry.average_brier_score = Average(2500, 1)
        /\ \E entry \in Range(_calculate_leaderboard(1)) :
              entry.user_id = u /\ entry.forecast_count = 2
        /\ get_my_stats(u).resolved_forecasts = 2
        /\ get_my_stats(u).average_brier_score = Average(2500, 1)
        /\ leaderboard_shown.asked

====
